---- MODULE Spec2Model ----
(***************************************************************************)
(* Model of the Video-player repository:                                   *)
(*   - the Player Controller (the VideoPlayerApp React component with its  *)
(*     MediaControls handlers), and                                        *)
(*   - the Proxy Gateway (the express route /api/proxy-get-stream).        *)
(* JavaScript strings are TLA+ strings; JSON objects are records whose     *)
(* DOMAIN is the set of keys that are present.                             *)
(***************************************************************************)
EXTENDS Integers, Sequences, FiniteSets, TLC

VARIABLES
    streamData,     \* useState(null): the stored stream descriptor
    loading,        \* useState(false): a fetch was started and has not finished
    error,          \* useState(null): the stored error text
    title,          \* useState(''): the text of the input field
    isFullscreen,   \* useState(false)
    playerState,    \* PLAYER_STATES value held by the component
    currentTime,    \* progress handed to MediaControls
    duration,       \* duration handed to MediaControls
    isLoading,      \* the widget load flag handed to MediaControls
    inflight,       \* the player's outstanding network calls, in issue order
    timers,         \* pending Quick Play timeouts: the title each closure captured
                    \* and the example whose button scheduled it
    crashed,        \* the render threw and the component tree is gone
    lastOp,         \* the handler that ran last, with its inputs; a completion also
                    \* records what it follows: a clearAll, or the completion of a
                    \* call issued after its own
    effects,        \* what that handler did to the outside: alerts, requests, seeks
    gwPending,      \* gateway: inbound requests awaiting the upstream
    gwLast,         \* gateway: the step of the route handler that ran last
    gwEffects       \* gateway: what that step did: outbound calls, responses sent

playerVars == <<streamData, loading, error, title, isFullscreen, playerState,
                currentTime, duration, isLoading, inflight, timers, crashed,
                lastOp, effects>>
gwVars == <<gwPending, gwLast, gwEffects>>
vars == <<streamData, loading, error, title, isFullscreen, playerState,
          currentTime, duration, isLoading, inflight, timers, crashed,
          lastOp, effects, gwPending, gwLast, gwEffects>>

(***************************************************************************)
(* Bounds of the model.                                                    *)
(***************************************************************************)
MaxInflight == 2    \* most network calls outstanding at once
MaxTimers == 1      \* most Quick Play timeouts pending at once
MaxTime == 1        \* largest time value a widget callback supplies
MaxGwPending == 2   \* most gateway requests awaiting the upstream at once

(***************************************************************************)
(* JavaScript values.                                                      *)
(***************************************************************************)
Null == [null |-> TRUE]         \* null in an object-typed slot
NullS == "<null>"               \* null in a string-typed slot
Undefined == "<undefined>"      \* a missing property / undefined

PLAYING == "PLAYING"
PAUSED == "PAUSED"
ENDED == "ENDED"

API_BASE_URL == "https://u-1-1azw.onrender.com"

Examples == <<"wednesday.s01e03", "avengers.endgame", "oppenheimer.2023", "series.s01e01">>

\* the texts typed into the input field
TypedTitles == {"", " ", " a "}

\* the Quick Play buttons that are pressed
PressedExamples == {Examples[1]}

Times == 0..MaxTime

(***************************************************************************)
(* String.prototype.trim and encodeURIComponent.                           *)
(***************************************************************************)
IsSpace(c) == c = " "

RECURSIVE trimStart(_)
trimStart(s) == IF Len(s) > 0 /\ IsSpace(SubSeq(s, 1, 1))
                THEN trimStart(SubSeq(s, 2, Len(s)))
                ELSE s

RECURSIVE trimEnd(_)
trimEnd(s) == IF Len(s) > 0 /\ IsSpace(SubSeq(s, Len(s), Len(s)))
              THEN trimEnd(SubSeq(s, 1, Len(s) - 1))
              ELSE s

trim(s) == trimEnd(trimStart(s))

EncodeChar(c) == IF c = " " THEN "%20"
                 ELSE IF c = "&" THEN "%26"
                 ELSE IF c = "%" THEN "%25"
                 ELSE c

RECURSIVE encodeURIComponent(_)
encodeURIComponent(s) == IF Len(s) = 0 THEN ""
                         ELSE EncodeChar(SubSeq(s, 1, 1)) \o encodeURIComponent(SubSeq(s, 2, Len(s)))

StreamUrl(t) == API_BASE_URL \o "/api/get-stream?title=" \o encodeURIComponent(t)

(***************************************************************************)
(* What the upstream can answer.                                           *)
(***************************************************************************)
Headers(r, u) == ("Referer" :> r) @@ ("User-Agent" :> u)

Good1 == [success |-> TRUE, video_id |-> "abc", m3u8_url |-> "https://x/y.m3u8", headers |-> Headers("r", "u")]
Good2 == [success |-> TRUE, video_id |-> "def", m3u8_url |-> "https://x/z.m3u8", headers |-> Headers("r2", "u2")]
EmptyUrl == [success |-> TRUE, video_id |-> "abc", m3u8_url |-> "", headers |-> Headers("r", "u")]
MissingUA == [success |-> TRUE, video_id |-> "abc", m3u8_url |-> "https://x/y.m3u8", headers |-> ("Referer" :> "r")]
NoHeaders == [success |-> TRUE, video_id |-> "abc", m3u8_url |-> "https://x/y.m3u8"]
Fail1 == [success |-> FALSE, error |-> "not found"]
FailNoError == [success |-> FALSE]

Bodies == {Good1, Good2, EmptyUrl, NoHeaders, Fail1}

ThrowMessages == {"timeout"}

\* the message of the TypeError raised by data.success when data is null
NullBodyMessage == "Cannot read properties of null (reading 'success')"

\* the outcome of awaiting fetch(url) and response.json()
Outcomes == [throws : {FALSE}, body : Bodies] \cup [throws : {TRUE}, message : ThrowMessages]

Get(obj, key) == IF key \in DOMAIN obj THEN obj[key] ELSE Undefined

Truthy(s) == s # Undefined /\ s # NullS /\ s # ""

\* a StreamDescriptor as section 3 of the specification requires it
WellFormed(d) ==
    /\ d # Null
    /\ Get(d, "success") = TRUE
    /\ Truthy(Get(d, "m3u8_url"))
    /\ "headers" \in DOMAIN d
    /\ Truthy(Get(d.headers, "Referer"))
    /\ Truthy(Get(d.headers, "User-Agent"))

(***************************************************************************)
(* Rendering.                                                              *)
(***************************************************************************)
\* {streamData ? <Video .../> : placeholder}
VideoMounted == streamData # Null /\ ~crashed

\* streamData.headers.Referer with streamData.headers undefined
RenderThrows(sd) == sd # Null /\ "headers" \notin DOMAIN sd

\* the source prop of <Video>
VideoSource == [uri |-> Get(streamData, "m3u8_url"),
                headers |-> Headers(Get(streamData.headers, "Referer"),
                                    Get(streamData.headers, "User-Agent"))]

NoEffects == [alerts |-> <<>>, requests |-> <<>>, seeks |-> <<>>]

ValidationAlert == <<"Error", "Please enter movie/series title">>
NetworkAlert == <<"Network Error", "Cannot connect to API server">>
PlaybackAlert == <<"Playback Error", "Failed to play video stream. Check if headers are working.">>

(***************************************************************************)
(* Initial state.                                                          *)
(***************************************************************************)
InitPlayerState == PAUSED
InitCurrentTime == 0
InitDuration == 0
InitIsLoading == BOOLEAN

PlayerInit ==
    /\ streamData = Null
    /\ loading = FALSE
    /\ error = NullS
    /\ title = ""
    /\ isFullscreen = FALSE
    /\ playerState = InitPlayerState
    /\ currentTime = InitCurrentTime
    /\ duration = InitDuration
    /\ isLoading \in InitIsLoading
    /\ inflight = <<>>
    /\ timers = <<>>
    /\ crashed = FALSE
    /\ lastOp = [op |-> "init"]
    /\ effects = NoEffects

NoGwEffects == [requests |-> <<>>, responses |-> <<>>]

GwInit ==
    /\ gwPending = <<>>
    /\ gwLast = [op |-> "init"]
    /\ gwEffects = NoGwEffects

Init == PlayerInit /\ GwInit

(***************************************************************************)
(* Player Controller: fetchStream.                                         *)
(***************************************************************************)
\* a network call whose promise has not settled
Pending == [state |-> "pending"]

RemoveAt(q, i) == SubSeq(q, 1, i - 1) \o SubSeq(q, i + 1, Len(q))

\* a title made of whitespace only (the empty title included)
WhitespaceOnly(t) == \A k \in 1..Len(t) : IsSpace(SubSeq(t, k, k))

IsBlank_noTrim(t) == t = ""

\* !title.trim()
IsBlank(t) == trim(t) = ""

\* fetchStream up to its first await; t is the title of the closure that runs
fetchStream(t) ==
    /\ ~crashed
    /\ lastOp' = [op |-> "fetchStream", title |-> t]
    /\ IF IsBlank(t)
       THEN /\ effects' = [NoEffects EXCEPT !.alerts = <<ValidationAlert>>]
            /\ UNCHANGED <<streamData, loading, error, isLoading, inflight>>
       ELSE /\ Len(inflight) < MaxInflight
            /\ loading' = TRUE
            /\ error' = NullS
            /\ streamData' = Null
            /\ isLoading' = TRUE
            /\ inflight' = Append(inflight, Pending)
            /\ effects' = [NoEffects EXCEPT !.requests = <<StreamUrl(trim(t))>>]
    /\ UNCHANGED <<isFullscreen, playerState, currentTime, duration, crashed, gwPending, gwLast, gwEffects>>

\* the Play Stream button, disabled={!title.trim() || loading}
PressPlay ==
    /\ ~(IsBlank(title) \/ loading)
    /\ fetchStream(title)
    /\ UNCHANGED <<title, timers>>

\* onSubmitEditing={fetchStream}
SubmitEditing ==
    /\ fetchStream(title)
    /\ UNCHANGED <<title, timers>>

\* a Quick Play button: setTitle(example); setTimeout(() => fetchStream(), 100)
\* The timeout calls the fetchStream of the render in which the button was
\* pressed, whose title is the one shown at the press.
QuickPlay(example) ==
    /\ ~crashed
    /\ Len(timers) < MaxTimers
    /\ title' = example
    /\ timers' = Append(timers, [title |-> title, example |-> example])
    /\ lastOp' = [op |-> "quickPlay", title |-> example]
    /\ effects' = NoEffects
    /\ UNCHANGED <<streamData, loading, error, isFullscreen, playerState,
                   currentTime, duration, isLoading, inflight, crashed, gwPending, gwLast, gwEffects>>

\* the timeout of a Quick Play press expires
TimerFire ==
    /\ Len(timers) > 0
    /\ fetchStream(Head(timers).title)
    /\ timers' = Tail(timers)
    /\ UNCHANGED title

fetchSucceeded_noPlay(data) == [streamData |-> data, playerState |-> playerState]

\* if (data.success) { setStreamData(data); setPlayerState(PLAYER_STATES.PLAYING); }
fetchSucceeded(data) == [streamData |-> data, playerState |-> PLAYING]

\* else { setError(data.error); Alert.alert('Error', data.error || 'Failed to get stream'); }
fetchFailed(data) ==
    [error |-> Get(data, "error"),
     alert |-> <<"Error", IF Truthy(Get(data, "error")) THEN Get(data, "error")
                          ELSE "Failed to get stream">>]

\* catch (err) { setError('Network error: ' + err.message); Alert.alert(...); }
fetchThrew(message) == [error |-> "Network error: " \o message, alert |-> NetworkAlert]

FetchComplete_latestWins(i, o) ==
    /\ ~crashed
    /\ i \in 1..Len(inflight)
    /\ inflight' = RemoveAt(inflight, i)
    /\ lastOp' = [op |-> "fetchDone", outcome |-> o, index |-> i,
                  before |-> IF lastOp.op = "clearAll" THEN [op |-> "clearAll"]
                             ELSE IF lastOp.op = "fetchDone" /\ i < lastOp.index
                                  THEN [op |-> "laterDone", outcome |-> lastOp.outcome]
                                  ELSE [op |-> "other"]]
    /\ loading' = FALSE
    /\ IF i < Len(inflight) \/ (lastOp.op = "fetchDone" /\ i < lastOp.index)
       THEN /\ effects' = NoEffects
            /\ UNCHANGED <<streamData, playerState, error, crashed>>
       ELSE IF o.throws \/ o.body = Null
            THEN LET r == fetchThrew(IF o.throws THEN o.message ELSE NullBodyMessage) IN
                 /\ error' = r.error
                 /\ effects' = [NoEffects EXCEPT !.alerts = <<r.alert>>]
                 /\ UNCHANGED <<streamData, playerState, crashed>>
            ELSE IF o.body.success
                 THEN LET r == fetchSucceeded(o.body) IN
                      /\ streamData' = r.streamData
                      /\ playerState' = r.playerState
                      /\ crashed' = RenderThrows(r.streamData)
                      /\ effects' = NoEffects
                      /\ UNCHANGED error
                 ELSE LET r == fetchFailed(o.body) IN
                      /\ error' = r.error
                      /\ effects' = [NoEffects EXCEPT !.alerts = <<r.alert>>]
                      /\ UNCHANGED <<streamData, playerState, crashed>>
    /\ UNCHANGED <<title, isFullscreen, currentTime, duration, isLoading, timers>>
    /\ UNCHANGED gwVars

\* fetchStream from its await to its end: the network call number i ends with outcome o
FetchComplete(i, o) ==
    /\ ~crashed
    /\ i \in 1..Len(inflight)
    /\ inflight' = RemoveAt(inflight, i)
    /\ lastOp' = [op |-> "fetchDone", outcome |-> o, index |-> i,
                  before |-> IF lastOp.op = "clearAll" THEN [op |-> "clearAll"]
                             ELSE IF lastOp.op = "fetchDone" /\ i < lastOp.index
                                  THEN [op |-> "laterDone", outcome |-> lastOp.outcome]
                                  ELSE [op |-> "other"]]
    /\ loading' = FALSE
    /\ IF o.throws \/ o.body = Null
       THEN LET r == fetchThrew(IF o.throws THEN o.message ELSE NullBodyMessage) IN
            /\ error' = r.error
            /\ effects' = [NoEffects EXCEPT !.alerts = <<r.alert>>]
            /\ UNCHANGED <<streamData, playerState, crashed>>
       ELSE IF o.body.success
            THEN LET r == fetchSucceeded(o.body) IN
                 /\ streamData' = r.streamData
                 /\ playerState' = r.playerState
                 /\ crashed' = RenderThrows(r.streamData)
                 /\ effects' = NoEffects
                 /\ UNCHANGED error
            ELSE LET r == fetchFailed(o.body) IN
                 /\ error' = r.error
                 /\ effects' = [NoEffects EXCEPT !.alerts = <<r.alert>>]
                 /\ UNCHANGED <<streamData, playerState, crashed>>
    /\ UNCHANGED <<title, isFullscreen, currentTime, duration, isLoading, timers>>
    /\ UNCHANGED gwVars

\* onChangeText={setTitle}
ChangeText(t) ==
    /\ ~crashed
    /\ t # title
    /\ title' = t
    /\ lastOp' = [op |-> "changeText", title |-> t]
    /\ effects' = NoEffects
    /\ UNCHANGED <<streamData, loading, error, isFullscreen, playerState,
                   currentTime, duration, isLoading, inflight, timers, crashed, gwPending, gwLast, gwEffects>>

clearAll_keepsPlayback ==
    /\ ~crashed
    /\ ~loading
    /\ title' = ""
    /\ streamData' = Null
    /\ error' = NullS
    /\ lastOp' = [op |-> "clearAll"]
    /\ effects' = NoEffects
    /\ UNCHANGED <<loading, isFullscreen, playerState, currentTime, duration,
                   isLoading, inflight, timers, crashed, gwPending, gwLast, gwEffects>>

clearAll_cancels ==
    /\ ~crashed
    /\ ~loading
    /\ title' = ""
    /\ streamData' = Null
    /\ error' = NullS
    /\ playerState' = PAUSED
    /\ currentTime' = 0
    /\ inflight' = <<>>
    /\ lastOp' = [op |-> "clearAll"]
    /\ effects' = NoEffects
    /\ UNCHANGED <<loading, isFullscreen, duration, isLoading, timers, crashed, gwPending, gwLast, gwEffects>>

\* the Clear button, disabled={loading}
clearAll ==
    /\ ~crashed
    /\ ~loading
    /\ title' = ""
    /\ streamData' = Null
    /\ error' = NullS
    /\ playerState' = PAUSED
    /\ currentTime' = 0
    /\ lastOp' = [op |-> "clearAll"]
    /\ effects' = NoEffects
    /\ UNCHANGED <<loading, isFullscreen, duration, isLoading, inflight, timers, crashed, gwPending, gwLast, gwEffects>>

(***************************************************************************)
(* Player Controller: MediaControls handlers and Video callbacks.  They    *)
(* exist only while the Video and its controls are rendered.               *)
(***************************************************************************)
onSeek(seek) ==
    /\ VideoMounted
    /\ lastOp' = [op |-> "onSeek", time |-> seek]
    /\ effects' = [NoEffects EXCEPT !.seeks = <<seek>>]
    /\ UNCHANGED <<streamData, loading, error, title, isFullscreen, playerState,
                   currentTime, duration, isLoading, inflight, timers, crashed, gwPending, gwLast, gwEffects>>

onPaused(ps) ==
    /\ VideoMounted
    /\ playerState' = ps
    /\ lastOp' = [op |-> "onPaused", state |-> ps]
    /\ effects' = NoEffects
    /\ UNCHANGED <<streamData, loading, error, title, isFullscreen,
                   currentTime, duration, isLoading, inflight, timers, crashed, gwPending, gwLast, gwEffects>>

onReplay_noSeek ==
    /\ VideoMounted
    /\ playerState' = PLAYING
    /\ lastOp' = [op |-> "onReplay"]
    /\ effects' = NoEffects
    /\ UNCHANGED <<streamData, loading, error, title, isFullscreen,
                   currentTime, duration, isLoading, inflight, timers, crashed, gwPending, gwLast, gwEffects>>

onReplay ==
    /\ VideoMounted
    /\ playerState' = PLAYING
    /\ lastOp' = [op |-> "onReplay"]
    /\ effects' = [NoEffects EXCEPT !.seeks = <<0>>]
    /\ UNCHANGED <<streamData, loading, error, title, isFullscreen,
                   currentTime, duration, isLoading, inflight, timers, crashed, gwPending, gwLast, gwEffects>>

onProgress_always(t) ==
    /\ VideoMounted
    /\ currentTime' = t
    /\ lastOp' = [op |-> "onProgress", time |-> t]
    /\ effects' = NoEffects
    /\ UNCHANGED <<streamData, loading, error, title, isFullscreen, playerState,
                   duration, isLoading, inflight, timers, crashed, gwPending, gwLast, gwEffects>>

onProgress(t) ==
    /\ VideoMounted
    /\ IF ~isLoading /\ playerState # ENDED
       THEN currentTime' = t
       ELSE UNCHANGED currentTime
    /\ lastOp' = [op |-> "onProgress", time |-> t]
    /\ effects' = NoEffects
    /\ UNCHANGED <<streamData, loading, error, title, isFullscreen, playerState,
                   duration, isLoading, inflight, timers, crashed, gwPending, gwLast, gwEffects>>

onLoad(d) ==
    /\ VideoMounted
    /\ duration' = d
    /\ isLoading' = FALSE
    /\ lastOp' = [op |-> "onLoad", time |-> d]
    /\ effects' = NoEffects
    /\ UNCHANGED <<streamData, loading, error, title, isFullscreen, playerState,
                   currentTime, inflight, timers, crashed, gwPending, gwLast, gwEffects>>

onLoadStart ==
    /\ VideoMounted
    /\ isLoading' = TRUE
    /\ lastOp' = [op |-> "onLoadStart"]
    /\ effects' = NoEffects
    /\ UNCHANGED <<streamData, loading, error, title, isFullscreen, playerState,
                   currentTime, duration, inflight, timers, crashed, gwPending, gwLast, gwEffects>>

onEnd ==
    /\ VideoMounted
    /\ playerState' = ENDED
    /\ lastOp' = [op |-> "onEnd"]
    /\ effects' = NoEffects
    /\ UNCHANGED <<streamData, loading, error, title, isFullscreen,
                   currentTime, duration, isLoading, inflight, timers, crashed, gwPending, gwLast, gwEffects>>

onSeeking(t) ==
    /\ VideoMounted
    /\ currentTime' = t
    /\ lastOp' = [op |-> "onSeeking", time |-> t]
    /\ effects' = NoEffects
    /\ UNCHANGED <<streamData, loading, error, title, isFullscreen, playerState,
                   duration, isLoading, inflight, timers, crashed, gwPending, gwLast, gwEffects>>

onBuffer(isBuffering) ==
    /\ VideoMounted
    /\ lastOp' = [op |-> "onBuffer"]
    /\ effects' = NoEffects
    /\ UNCHANGED <<streamData, loading, error, title, isFullscreen, playerState,
                   currentTime, duration, isLoading, inflight, timers, crashed, gwPending, gwLast, gwEffects>>

onError_keepsLoading ==
    /\ VideoMounted
    /\ lastOp' = [op |-> "onError"]
    /\ effects' = [NoEffects EXCEPT !.alerts = <<PlaybackAlert>>]
    /\ UNCHANGED <<streamData, loading, error, title, isFullscreen, playerState,
                   currentTime, duration, isLoading, inflight, timers, crashed, gwPending, gwLast, gwEffects>>

onError ==
    /\ VideoMounted
    /\ isLoading' = FALSE
    /\ lastOp' = [op |-> "onError"]
    /\ effects' = [NoEffects EXCEPT !.alerts = <<PlaybackAlert>>]
    /\ UNCHANGED <<streamData, loading, error, title, isFullscreen, playerState,
                   currentTime, duration, inflight, timers, crashed, gwPending, gwLast, gwEffects>>

\* onEnterFullscreen / onExitFullscreen of MediaControls
setIsFullscreen(b) ==
    /\ VideoMounted
    /\ isFullscreen' = b
    /\ lastOp' = [op |-> "setIsFullscreen", value |-> b]
    /\ effects' = NoEffects
    /\ UNCHANGED <<streamData, loading, error, title, playerState,
                   currentTime, duration, isLoading, inflight, timers, crashed, gwPending, gwLast, gwEffects>>

Next ==
    \/ PressPlay
    \/ SubmitEditing
    \/ \E e \in PressedExamples : QuickPlay(e)
    \/ TimerFire
    \/ \E i \in 1..MaxInflight, o \in Outcomes : FetchComplete(i, o)
    \/ \E t \in TypedTitles : ChangeText(t)
    \/ clearAll
    \/ \E t \in Times : onSeek(t)
    \/ \E ps \in {PLAYING, PAUSED} : onPaused(ps)
    \/ onReplay
    \/ \E t \in Times : onProgress(t)
    \/ \E d \in Times : onLoad(d)
    \/ onLoadStart
    \/ onEnd
    \/ \E t \in Times : onSeeking(t)
    \/ \E b \in BOOLEAN : onBuffer(b)
    \/ onError
    \/ \E b \in BOOLEAN : setIsFullscreen(b)

Spec == Init /\ [][Next]_vars

(***************************************************************************)
(* Proxy Gateway: app.get('/api/proxy-get-stream').                        *)
(***************************************************************************)
\* the values of req.query.title: missing, or a string
GwTitles == {Undefined, "", " ", "a", "&", "a b", Examples[1]}

GwUrlPrefix == "https://u-1-1azw.onrender.com/api/get-stream?title="

\* `https://u-1-1azw.onrender.com/api/get-stream?title=${encodeURIComponent(title)}`
GwUrl(t) == GwUrlPrefix \o encodeURIComponent(t)

GwTitleMissing_undefinedOnly(t) == t = Undefined

\* !title
GwTitleMissing(t) == ~Truthy(t)

\* what awaiting fetch(url) and response.json() can produce
GwOutcomes == [kind : {"json"}, body : Bodies \cup {MissingUA, FailNoError, Null}]
              \cup [kind : {"nonJson"}]
              \cup [kind : {"networkError"}, message : ThrowMessages \cup {""}]

\* the message of the SyntaxError raised by response.json() on a non-JSON body
NonJsonMessage == "Unexpected token < in JSON at position 0"

TitleRequired == [success |-> FALSE, error |-> "Title parameter required"]

ErrorEnvelope(m) == [success |-> FALSE, error |-> m]

\* the route handler up to its first await
GwReceive(t) ==
    /\ IF GwTitleMissing(t)
       THEN /\ gwEffects' = [NoGwEffects EXCEPT !.responses = <<[kind |-> "json", body |-> TitleRequired]>>]
            /\ gwLast' = [op |-> "reject", title |-> t]
            /\ UNCHANGED gwPending
       ELSE /\ Len(gwPending) < MaxGwPending
            /\ gwPending' = Append(gwPending, [title |-> t, url |-> GwUrl(t)])
            /\ gwEffects' = [NoGwEffects EXCEPT !.requests = <<GwUrl(t)>>]
            /\ gwLast' = [op |-> "forward", title |-> t]
    /\ UNCHANGED playerVars

GwRespond_noCatch(o) ==
    IF o.kind = "json"
    THEN [kind |-> "json", body |-> o.body]
    ELSE [kind |-> "transportError",
          message |-> IF o.kind = "nonJson" THEN NonJsonMessage ELSE o.message]

GwRespond_wrapped(o) ==
    IF o.kind = "json"
    THEN [kind |-> "json", body |-> [success |-> TRUE, data |-> o.body]]
    ELSE [kind |-> "json",
          body |-> ErrorEnvelope(IF o.kind = "nonJson" THEN NonJsonMessage ELSE o.message)]

\* the route handler from its await to its end
GwRespond(o) ==
    IF o.kind = "json"
    THEN [kind |-> "json", body |-> o.body]
    ELSE [kind |-> "json",
          body |-> ErrorEnvelope(IF o.kind = "nonJson" THEN NonJsonMessage ELSE o.message)]

GwComplete_retry(i, o) ==
    /\ i \in 1..Len(gwPending)
    /\ IF o.kind = "networkError"
       THEN /\ gwPending' = gwPending
            /\ gwEffects' = [NoGwEffects EXCEPT !.requests = <<gwPending[i].url>>]
       ELSE /\ gwPending' = RemoveAt(gwPending, i)
            /\ gwEffects' = [NoGwEffects EXCEPT !.responses = <<GwRespond(o)>>]
    /\ gwLast' = [op |-> "complete", title |-> gwPending[i].title,
                  url |-> gwPending[i].url, outcome |-> o]
    /\ UNCHANGED playerVars

GwComplete(i, o) ==
    /\ i \in 1..Len(gwPending)
    /\ gwPending' = RemoveAt(gwPending, i)
    /\ gwEffects' = [NoGwEffects EXCEPT !.responses = <<GwRespond(o)>>]
    /\ gwLast' = [op |-> "complete", title |-> gwPending[i].title,
                  url |-> gwPending[i].url, outcome |-> o]
    /\ UNCHANGED playerVars

GwNext ==
    \/ \E t \in GwTitles : GwReceive(t)
    \/ \E i \in 1..MaxGwPending, o \in GwOutcomes : GwComplete(i, o)

GwSpec == Init /\ [][GwNext]_vars

(***************************************************************************)
(* The upstream's reading of a request URL: the title query parameter,     *)
(* cut at the first "&" and percent-decoded.                               *)
(***************************************************************************)
RECURSIVE UntilAmp(_)
UntilAmp(s) == IF Len(s) = 0 \/ SubSeq(s, 1, 1) = "&" THEN ""
               ELSE SubSeq(s, 1, 1) \o UntilAmp(SubSeq(s, 2, Len(s)))

DecodeEscape(e) == IF e = "%20" THEN " "
                   ELSE IF e = "%26" THEN "&"
                   ELSE IF e = "%25" THEN "%"
                   ELSE e

RECURSIVE decodeURIComponent(_)
decodeURIComponent(s) ==
    IF Len(s) = 0 THEN ""
    ELSE IF SubSeq(s, 1, 1) = "%" /\ Len(s) >= 3
         THEN DecodeEscape(SubSeq(s, 1, 3)) \o decodeURIComponent(SubSeq(s, 4, Len(s)))
         ELSE SubSeq(s, 1, 1) \o decodeURIComponent(SubSeq(s, 2, Len(s)))

HasPrefix(s, p) == Len(s) >= Len(p) /\ SubSeq(s, 1, Len(p)) = p

QueriedTitle(url) == decodeURIComponent(UntilAmp(SubSeq(url, Len(GwUrlPrefix) + 1, Len(url))))

(***************************************************************************)
(* Properties.                                                             *)
(***************************************************************************)
FetchDone == lastOp.op = "fetchDone"

FetchDoneThrew == FetchDone /\ (lastOp.outcome.throws \/ lastOp.outcome.body = Null)

FetchDoneBody == FetchDone /\ ~lastOp.outcome.throws /\ lastOp.outcome.body # Null

\* C1: when a fetch completes with success=true and a well-formed descriptor,
\* loading is false, playerState is PLAYING and the stored descriptor carries
\* exactly the response's m3u8_url, Referer and User-Agent.
C1_SuccessStoresDescriptor ==
    (FetchDoneBody /\ WellFormed(lastOp.outcome.body)) =>
        /\ loading = FALSE
        /\ playerState = PLAYING
        /\ streamData # Null
        /\ Get(streamData, "m3u8_url") = lastOp.outcome.body.m3u8_url
        /\ "headers" \in DOMAIN streamData
        /\ Get(streamData.headers, "Referer") = lastOp.outcome.body.headers["Referer"]
        /\ Get(streamData.headers, "User-Agent") = lastOp.outcome.body.headers["User-Agent"]

\* a second fetch is still outstanding when the first completes with Good1
C1_Witness ==
    /\ FetchDoneBody
    /\ lastOp.outcome.body = Good1
    /\ streamData = Good1
    /\ Len(inflight) > 0

\* C2: a fetchStream whose title is empty or whitespace-only issues no network
\* call, raises the validation alert and leaves loading, the descriptor, the
\* error and playerState as they were.
C2_BlankTitleRejected ==
    [][(lastOp'.op = "fetchStream" /\ WhitespaceOnly(lastOp'.title)) =>
          /\ effects'.requests = <<>>
          /\ inflight' = inflight
          /\ effects'.alerts = <<ValidationAlert>>
          /\ UNCHANGED <<loading, streamData, error, playerState>>]_vars

\* fetchStream ran on a title of one space while a stream was playing
C2_Witness ==
    /\ lastOp.op = "fetchStream"
    /\ lastOp.title = " "
    /\ effects.alerts = <<ValidationAlert>>
    /\ streamData # Null

\* C3: when a fetch completes with success=false, loading is false, no
\* descriptor is stored and the stored error is the response's error field.
C3_FailureStoresError ==
    (FetchDoneBody /\ lastOp.outcome.body.success = FALSE) =>
        /\ loading = FALSE
        /\ streamData = Null
        /\ error = Get(lastOp.outcome.body, "error")

\* C4: when the network call or the JSON handling of a fetch throws, loading
\* is false, the stored error is a non-empty string and no descriptor is stored.
C4_ExceptionStoresError ==
    FetchDoneThrew =>
        /\ loading = FALSE
        /\ error # NullS /\ error # Undefined /\ Len(error) > 0
        /\ streamData = Null

\* C5: right after clearAll the title is empty, no descriptor and no error are
\* stored, playerState is PAUSED and currentTime is 0.
C5_ClearAllResets ==
    (lastOp.op = "clearAll") =>
        /\ title = ""
        /\ streamData = Null
        /\ error = NullS
        /\ playerState = PAUSED
        /\ currentTime = 0

\* clearAll ran after a stream had been loaded by the widget
C5_Witness ==
    /\ lastOp.op = "clearAll"
    /\ duration > 0
    /\ Len(inflight) > 0

\* C6: right after replay, playerState is PLAYING and seek(0) was issued to
\* the video widget.
C6_ReplaySeeksToZero ==
    (lastOp.op = "onReplay") =>
        /\ playerState = PLAYING
        /\ effects.seeks = <<0>>

C6_Witness ==
    /\ lastOp.op = "onReplay"
    /\ streamData # Null
    /\ currentTime > 0

\* C7: an inbound proxy request whose title is missing or empty is answered
\* with {success:false, error:"Title parameter required"} and causes no
\* outbound call.
C7_MissingTitleRejected ==
    /\ (gwLast.op \in {"reject", "forward"} /\ (gwLast.title = Undefined \/ gwLast.title = "")) =>
          /\ gwEffects.responses = <<[kind |-> "json", body |-> [success |-> FALSE, error |-> "Title parameter required"]]>>
          /\ gwEffects.requests = <<>>
    /\ \A k \in 1..Len(gwPending) : gwPending[k].title # Undefined /\ gwPending[k].title # ""

C7_Witness ==
    /\ gwLast.op = "reject"
    /\ gwLast.title = ""
    /\ Len(gwPending) > 0

\* C8: when the outbound call or the body parse of a proxy request throws an
\* error with message m, the response is the JSON envelope
\* {success:false, error:m}; no request ends with a transport-level error.
C8_ThrowBecomesEnvelope ==
    /\ (gwLast.op = "complete" /\ gwLast.outcome.kind = "networkError") =>
          gwEffects.responses = <<[kind |-> "json", body |-> [success |-> FALSE, error |-> gwLast.outcome.message]]>>
    /\ (gwLast.op = "complete" /\ gwLast.outcome.kind = "nonJson") =>
          gwEffects.responses = <<[kind |-> "json", body |-> [success |-> FALSE, error |-> NonJsonMessage]]>>
    /\ \A k \in 1..Len(gwEffects.responses) : gwEffects.responses[k].kind = "json"

C8_Witness ==
    /\ gwLast.op = "complete"
    /\ gwLast.outcome.kind = "networkError"
    /\ gwLast.outcome.message = "timeout"
    /\ gwEffects.responses = <<[kind |-> "json", body |-> [success |-> FALSE, error |-> "timeout"]]>>

\* C9: when the upstream call of a proxy request returns a JSON body d, the
\* response body is exactly d, and the upstream was queried with the
\* request's title.
C9_BodyRelayedVerbatim ==
    (gwLast.op = "complete" /\ gwLast.outcome.kind = "json") =>
        /\ gwEffects.responses = <<[kind |-> "json", body |-> gwLast.outcome.body]>>
        /\ HasPrefix(gwLast.url, GwUrlPrefix)
        /\ QueriedTitle(gwLast.url) = gwLast.title

\* a success=false body is relayed for a title that needs escaping
C9_Witness ==
    /\ gwLast.op = "complete"
    /\ gwLast.outcome.kind = "json"
    /\ gwLast.outcome.body = Fail1
    /\ gwLast.title = "&"
    /\ gwEffects.responses = <<[kind |-> "json", body |-> Fail1]>>

\* C10: the video widget is handed a source only for a descriptor with
\* success=true and a non-empty m3u8_url, Referer and User-Agent.
C10_SourceOnlyIfWellFormed ==
    VideoMounted => WellFormed(streamData)

\* C11: a playback-error callback raises the playback alert and clears the
\* widget load flag, and leaves the stored descriptor, the stored error and
\* playerState as they were.
C11_PlaybackErrorFrame ==
    [][(lastOp'.op = "onError") =>
          /\ effects'.alerts = <<PlaybackAlert>>
          /\ isLoading' = FALSE
          /\ UNCHANGED <<streamData, error, playerState>>]_vars

\* the playback error arrived after the stream had ended, with an error text
\* of an overlapping fetch stored next to the descriptor
C11_Witness ==
    /\ lastOp.op = "onError"
    /\ effects.alerts = <<PlaybackAlert>>
    /\ isLoading = FALSE
    /\ playerState = ENDED
    /\ error # NullS

\* C12: a progress callback sets currentTime to the supplied value only when
\* isLoading is false and playerState is not ENDED; otherwise it leaves
\* currentTime as it was; in both cases all other state is unchanged.
C12_ProgressGuarded ==
    [][(lastOp'.op = "onProgress") =>
          /\ IF ~isLoading /\ playerState # ENDED
             THEN currentTime' = lastOp'.time
             ELSE currentTime' = currentTime
          /\ UNCHANGED <<streamData, loading, error, title, isFullscreen, playerState,
                         duration, isLoading, inflight, timers, crashed>>]_vars

\* a progress report of MaxTime was ignored after the stream had ended
C12_Witness ==
    /\ lastOp.op = "onProgress"
    /\ lastOp.time = MaxTime
    /\ currentTime = 0
    /\ playerState = ENDED
    /\ isLoading = FALSE

\* a completion whose response carries success=true
SuccessfulFetchDone(op) ==
    /\ op.op = "fetchDone"
    /\ ~op.outcome.throws
    /\ op.outcome.body # Null
    /\ op.outcome.body.success = TRUE

\* C13: playerState starts as PAUSED and changes only to PLAYING on a
\* successful fetch completion, a user resume or a replay, to PAUSED on a user
\* pause or clearAll, and to ENDED on the end-of-stream callback; no other
\* handler changes it, and ENDED is left for PLAYING only by replay or a
\* successful fetch.
C13_PlayerStateEdges ==
    /\ playerState = PAUSED
    /\ [][(playerState' # playerState) =>
            /\ (playerState' = PLAYING) =>
                   \/ SuccessfulFetchDone(lastOp')
                   \/ lastOp'.op = "onPaused"
                   \/ lastOp'.op = "onReplay"
            /\ (playerState' = PAUSED) => lastOp'.op \in {"onPaused", "clearAll"}
            /\ (playerState' = ENDED) => lastOp'.op = "onEnd"
            /\ (playerState = ENDED /\ playerState' = PLAYING) =>
                   \/ SuccessfulFetchDone(lastOp')
                   \/ lastOp'.op = "onReplay"]_vars

\* C14: in every state in which the duration of the stored stream is known,
\* 0 <= currentTime <= duration.  The duration of the stored stream is known
\* from the load-complete callback on, so it is known in the state that
\* callback leaves.
C14_TimeWithinDuration ==
    (lastOp.op = "onLoad" /\ VideoMounted) =>
        /\ 0 <= currentTime
        /\ currentTime <= duration

\* C15: right after clearAll every field of the PlaybackState has its initial
\* value: besides the five of C5 also duration, isFullscreen, loading and
\* isLoading.
C15_ClearAllResetsEverything ==
    (lastOp.op = "clearAll") =>
        /\ title = ""
        /\ streamData = Null
        /\ error = NullS
        /\ playerState = InitPlayerState
        /\ currentTime = InitCurrentTime
        /\ duration = InitDuration
        /\ isFullscreen = FALSE
        /\ loading = FALSE
        /\ isLoading \in InitIsLoading

\* the result of outcome o is what the state sd, ps, err holds
ResultApplied(o, sd, ps, err) ==
    IF o.throws THEN err = "Network error: " \o o.message
    ELSE IF o.body = Null THEN err = "Network error: " \o NullBodyMessage
    ELSE IF o.body.success THEN sd = o.body /\ ps = PLAYING
    ELSE err = Get(o.body, "error")

\* C16: an in-flight fetch is not cancelled by clearAll or by a newer fetch:
\* clearAll and a newer fetchStream leave every outstanding call outstanding,
\* and a call that completes right after a clearAll still stores its
\* descriptor and sets PLAYING, or stores its error.
C16_NoCancellation ==
    [][/\ (lastOp'.op = "clearAll") => inflight' = inflight
       /\ (lastOp'.op = "fetchStream") =>
              /\ Len(inflight') >= Len(inflight)
              /\ SubSeq(inflight', 1, Len(inflight)) = inflight
       /\ (lastOp'.op = "fetchDone" /\ lastOp.op = "clearAll") =>
              ResultApplied(lastOp'.outcome, streamData', playerState', error')]_vars

\* a fetch issued before a clearAll completed right after it, with no fetch
\* issued in between, and its descriptor is stored and playing although the
\* title is still the cleared one
C16_Witness ==
    /\ lastOp.op = "fetchDone"
    /\ lastOp.before.op = "clearAll"
    /\ WellFormed(streamData)
    /\ streamData = lastOp.outcome.body
    /\ playerState = PLAYING
    /\ title = ""
    /\ inflight = <<>>

\* C17: overlapping fetches are not serialized: a call that completes after a
\* call issued later than itself still applies its result, so that what is
\* stored once both have completed is the result of the earlier-issued fetch.
C17_StaleResultApplied ==
    [][(lastOp'.op = "fetchDone" /\ lastOp.op = "fetchDone" /\ lastOp'.index < lastOp.index) =>
           ResultApplied(lastOp'.outcome, streamData', playerState', error')]_vars

\* two fetches overlapped, the later-issued one completed first with Good2,
\* then the earlier-issued one completed with Good1, which is what is stored
C17_Witness ==
    /\ lastOp.op = "fetchDone"
    /\ lastOp.before.op = "laterDone"
    /\ ~lastOp.before.outcome.throws
    /\ lastOp.before.outcome.body = Good2
    /\ ~lastOp.outcome.throws
    /\ lastOp.outcome.body = Good1
    /\ streamData = Good1
    /\ inflight = <<>>

\* C18: the gateway issues exactly one outbound call when it accepts an
\* inbound request with a non-empty title, and none at any other step: the
\* step that ends a request, with a body or with a failure, answers it, takes
\* it off the pending requests and issues no outbound call.
C18_OneOutboundPerInbound ==
    [][/\ (gwLast'.op = "forward") =>
              /\ gwEffects'.requests = <<GwUrl(gwLast'.title)>>
              /\ Len(gwPending') = Len(gwPending) + 1
       /\ (gwLast'.op = "reject") => (gwEffects'.requests = <<>> /\ gwPending' = gwPending)
       /\ (gwLast'.op = "complete") =>
              /\ gwEffects'.requests = <<>>
              /\ Len(gwEffects'.responses) = 1
              /\ Len(gwPending') = Len(gwPending) - 1]_vars

\* the upstream call of one request failed while another request was
\* pending: the failure was answered and no outbound call was made
C18_Witness ==
    /\ gwLast.op = "complete"
    /\ gwLast.outcome.kind = "networkError"
    /\ gwLast.outcome.message = ""
    /\ gwEffects.requests = <<>>
    /\ Len(gwPending) = 1

\* C19: in every state in which a fetchStream network call is outstanding,
\* loading is true, so that the Play and Clear buttons are disabled.
C19_LoadingWhileOutstanding ==
    (Len(inflight) > 0) => loading = TRUE

\* C20: the fetchStream scheduled by pressing the Quick Play button of example
\* title e issues a network call for e.
C20_QuickPlayFetchesExample ==
    [][(timers # <<>> /\ timers' = Tail(timers) /\ lastOp'.op = "fetchStream") =>
           effects'.requests = <<StreamUrl(Head(timers).example)>>]_vars

\* C21: in every state, a stored descriptor and a stored error are never
\* both present.
C21_DescriptorXorError ==
    ~(streamData # Null /\ error # NullS)

\* C22: in every state, playerState is PLAYING or ENDED only if a descriptor
\* is stored.
C22_PlayingNeedsDescriptor ==
    (playerState \in {PLAYING, ENDED}) => streamData # Null

====
